---- MODULE Spec2Model ----
(***************************************************************************)
(* The graphsplit command line driver (src/cmd/graphsplit/main.go): the    *)
(* chunk command, with its persisted config file and its loop mode, and    *)
(* the restore command.  The calls into the graphsplit core (Chunk,        *)
(* NewRealFile, CarTo, Merge) and into the config package are calls whose  *)
(* outcome the driver cannot choose: each is a step with every outcome.    *)
(***************************************************************************)
EXTENDS Integers, Sequences, FiniteSets

\* ------------------------------------------------------------ bounds ----
\* Width of Go's int, int64 and uint in the model (64 in the build).
IntBits == 8
\* Bytes per GiB in the model's unit (2^30 in the build).
Gib == 1
\* Invocations of the program sharing one config file.
MaxRuns == 2
\* Invocations of the chunk operation over all runs.
MaxPasses == 3
\* Files found by the walk of one chunk pass.
NumFiles == 2
\* Files a slice holds before it is sealed.
SliceCap == 1

\* ------------------------------------------------- machine integers ----
TwoW == 2 ^ IntBits
MaxInt == 2 ^ (IntBits - 1) - 1
MinInt == 0 - 2 ^ (IntBits - 1)
MaxUint == TwoW - 1

\* The value of an int expression: Go's signed arithmetic wraps.
ToInt(x) == ((x - MinInt) % TwoW) + MinInt

\* 32*graphsplit.Gib
SliceLimit == 32 * Gib

\* ------------------------------------------------------ config file ----
\* ExtraFileSizeInOnePiece is a text: empty, a size, or no size at all.
EmptyText == [str |-> "empty", n |-> 0]
BadText == [str |-> "bad", n |-> 0]
SizeText(n) == [str |-> "size", n |-> n]

\* units.RAMInBytes: the bytes a size text denotes, an error for any other.
RAMInBytes(t) == IF t.str = "size" THEN [err |-> FALSE, n |-> t.n]
                 ELSE [err |-> TRUE, n |-> 0 - 1]

NoPath == ""
ExtraDir == "/extra/"

SliceSizes == {0 - 1, 0, SliceLimit - 2, SliceLimit - 1, SliceLimit, MaxInt - 1, MaxInt}
ExtraTexts == {EmptyText, BadText, SizeText(1), SizeText(2), SizeText(MaxInt - 1)}

ConfigFiles ==
  { [SliceSize |-> s, ExtraFilePath |-> p, ExtraFileSizeInOnePiece |-> t] :
      s \in SliceSizes, p \in {NoPath, ExtraDir}, t \in ExtraTexts }

NoCfg == [SliceSize |-> 0, ExtraFilePath |-> NoPath, ExtraFileSizeInOnePiece |-> EmptyText]

\* --------------------------------------------------------- callbacks ----
NoCallback == "nil"

\* The extra-file source NewRealFile builds, by its constructor arguments.
NoRealFile == [made |-> FALSE, path |-> NoPath, extraSize |-> 0, sliceSize |-> 0]
NoArgs == [sliceSize |-> 0, parallel |-> 0, cb |-> NoCallback, rf |-> NoRealFile]

ParallelArgs == {0, 1, 2, MaxUint}
RestoreParallelArgs == {0 - 1, 0, 1, 4}
OutputDirs == {"out", "out2"}

VARIABLES
  pc,          \* the position of the running command
  cmd,         \* the command app.Run dispatched to
  run,         \* the number of this invocation of the program
  result,      \* what the command's Action returned
  cfgFile,     \* the config file on disk
  cfgFile0,    \* the config file as this run found it
  cfg,         \* the loaded config
  parallel,    \* c.Uint("parallel") / c.Int("parallel")
  sliceSize, extraFileSliceSize, rf, cb,
  calcCommp, saveManifest, loop,
  chunkArgs,   \* the arguments of the running (or last) Chunk call
  chunkErr,    \* whether the last Chunk call returned an error
  chunkCalls,  \* the arguments of this run's Chunk calls, in order
  passes,      \* the slice sizes of every run's Chunk calls, in order
  outputDir,   \* c.String("output-dir")
  coreCalls,   \* the restore command's calls into the core, in order
  coreReturns, \* the calls of coreCalls that have returned, in order
  phaseFailed, \* the restore phases that failed
  next, building, open, sealed, emit, cbLog, fatal  \* inside one Chunk call

driverVars == <<cfg, parallel, sliceSize, extraFileSliceSize, rf, cb,
                calcCommp, saveManifest, loop, chunkArgs, chunkErr, chunkCalls>>
restoreVars == <<outputDir, coreCalls, coreReturns, phaseFailed>>
coreVars == <<next, building, open, sealed, emit, cbLog, fatal>>
vars == <<pc, cmd, run, result, cfgFile, cfgFile0, passes,
          driverVars, restoreVars, coreVars>>

\* The state of a process that has just started.
Fresh ==
  /\ pc = "main"
  /\ cmd = "none"
  /\ result = "running"
  /\ cfg = NoCfg
  /\ parallel = 0
  /\ sliceSize = 0
  /\ extraFileSliceSize = 0
  /\ rf = NoRealFile
  /\ cb = NoCallback
  /\ calcCommp = FALSE
  /\ saveManifest = FALSE
  /\ loop = FALSE
  /\ chunkArgs = NoArgs
  /\ chunkErr = FALSE
  /\ chunkCalls = <<>>
  /\ outputDir = ""
  /\ coreCalls = <<>>
  /\ coreReturns = <<>>
  /\ phaseFailed = {}
  /\ next = 1
  /\ building = {}
  /\ open = {}
  /\ sealed = <<>>
  /\ emit = "none"
  /\ cbLog = <<>>
  /\ fatal = FALSE

Init ==
  /\ Fresh
  /\ run = 1
  /\ passes = <<>>
  /\ cfgFile \in ConfigFiles
  /\ cfgFile0 = cfgFile

\* The command returns r.
Return(r) == pc' = "done" /\ result' = r

\* ------------------------------------------------------------- main ----
\* app.Run dispatches to the chunk command, which reads its flags.
StartChunk ==
  /\ pc = "main"
  /\ cmd' = "chunk"
  /\ \E p \in ParallelArgs : parallel' = p
  /\ pc' = "checkCarDir"
  /\ UNCHANGED <<run, result, cfgFile, cfgFile0, passes, cfg, sliceSize,
                 extraFileSliceSize, rf, cb, calcCommp, saveManifest, loop,
                 chunkArgs, chunkErr, chunkCalls, restoreVars, coreVars>>

CheckCarDir ==
  /\ pc = "checkCarDir"
  /\ \E exists \in BOOLEAN :
       IF exists THEN pc' = "checkCfgPath" /\ result' = result
       ELSE Return("car-dir does not exist")
  /\ UNCHANGED <<cmd, run, cfgFile, cfgFile0, passes, driverVars, restoreVars, coreVars>>

CheckCfgPath ==
  /\ pc = "checkCfgPath"
  /\ \E given \in BOOLEAN :
       IF given THEN pc' = "loadConfig" /\ result' = result
       ELSE Return("config file path is required")
  /\ UNCHANGED <<cmd, run, cfgFile, cfgFile0, passes, driverVars, restoreVars, coreVars>>

LoadConfig ==
  /\ pc = "loadConfig"
  /\ \E ok \in BOOLEAN :
       IF ok THEN /\ cfg' = cfgFile
                  /\ pc' = "bumpSliceSize"
                  /\ result' = result
       ELSE /\ Return("failed to load config file")
            /\ cfg' = cfg
  /\ UNCHANGED <<cmd, run, cfgFile, cfgFile0, passes, parallel, sliceSize,
                 extraFileSliceSize, rf, cb, calcCommp, saveManifest, loop,
                 chunkArgs, chunkErr, chunkCalls, restoreVars, coreVars>>

\* cfg.SliceSize++ ; sliceSize := cfg.SliceSize ; if sliceSize <= 0 { return }
BumpSliceSize ==
  /\ pc = "bumpSliceSize"
  /\ cfg' = [cfg EXCEPT !.SliceSize = ToInt(cfg.SliceSize + 1)]
  /\ sliceSize' = cfg'.SliceSize
  /\ IF sliceSize' <= 0 THEN Return("slice size has been set as")
     ELSE pc' = "saveConfig" /\ result' = result
  /\ UNCHANGED <<cmd, run, cfgFile, cfgFile0, passes, parallel,
                 extraFileSliceSize, rf, cb, calcCommp, saveManifest, loop,
                 chunkArgs, chunkErr, chunkCalls, restoreVars, coreVars>>

\* err = cfg.SaveConfig(cfgPath)
SaveConfig ==
  /\ pc = "saveConfig"
  /\ \E ok \in BOOLEAN :
       IF ok THEN /\ cfgFile' = cfg
                  /\ pc' = "parseExtra"
                  /\ result' = result
       ELSE /\ Return("failed to save config file")
            /\ cfgFile' = cfgFile
  /\ UNCHANGED <<cmd, run, cfgFile0, passes, driverVars, restoreVars, coreVars>>

ParseExtra ==
  /\ pc = "parseExtra"
  /\ IF cfg.ExtraFilePath # NoPath
     THEN IF cfg.ExtraFileSizeInOnePiece = EmptyText
          THEN /\ Return("extra file size in one piece is required")
               /\ extraFileSliceSize' = extraFileSliceSize
          ELSE LET r == RAMInBytes(cfg.ExtraFileSizeInOnePiece) IN
               /\ extraFileSliceSize' = r.n
               /\ IF r.err THEN Return("failed to parse real file size")
                  ELSE pc' = "checkLimit" /\ result' = result
     ELSE /\ extraFileSliceSize' = extraFileSliceSize
          /\ pc' = "checkLimit"
          /\ result' = result
  /\ UNCHANGED <<cmd, run, cfgFile, cfgFile0, passes, cfg, parallel, sliceSize,
                 rf, cb, calcCommp, saveManifest, loop, chunkArgs, chunkErr,
                 chunkCalls, restoreVars, coreVars>>

\* sliceSize+int(extraFileSliceSize) > 32*graphsplit.Gib
ExceedsLimit(s, e) == ToInt(s + ToInt(e)) > SliceLimit

CheckLimit ==
  /\ pc = "checkLimit"
  /\ IF ExceedsLimit(sliceSize, extraFileSliceSize)
     THEN Return("exceeds 32 GiB")
     ELSE pc' = "newRealFile" /\ result' = result
  /\ UNCHANGED <<cmd, run, cfgFile, cfgFile0, passes, driverVars, restoreVars, coreVars>>

\* graphsplit.NewRealFile(path, int64(extraFileSliceSize), int64(sliceSize), ...)
RealFileOf(path, e, s) ==
  [made |-> TRUE, path |-> path, extraSize |-> e, sliceSize |-> s]

NewRealFile ==
  /\ pc = "newRealFile"
  /\ \E ok \in BOOLEAN :
       IF ok THEN /\ rf' = RealFileOf(cfg.ExtraFilePath, extraFileSliceSize, sliceSize)
                  /\ pc' = "selectCallback"
                  /\ result' = result
       ELSE /\ Return("NewRealFile failed")
            /\ rf' = rf
  /\ UNCHANGED <<cmd, run, cfgFile, cfgFile0, passes, cfg, parallel, sliceSize,
                 extraFileSliceSize, cb, calcCommp, saveManifest, loop,
                 chunkArgs, chunkErr, chunkCalls, restoreVars, coreVars>>

\* The selection with the two flags tested in the other order.
SelectFirstSaveManifest(calc, save) ==
  IF save THEN "CSVCallback"
  ELSE IF calc THEN "CommPCallback"
  ELSE "ErrCallback"

\* if calc-commp {CommPCallback} else if save-manifest {CSVCallback} else {ErrCallback}
SelectCallback(calc, save) ==
  IF calc THEN "CommPCallback"
  ELSE IF save THEN "CSVCallback"
  ELSE "ErrCallback"

ChooseCallback ==
  /\ pc = "selectCallback"
  /\ \E calc \in BOOLEAN, save \in BOOLEAN :
       /\ calcCommp' = calc
       /\ saveManifest' = save
       /\ cb' = SelectCallback(calc, save)
  /\ pc' = "readLoop"
  /\ UNCHANGED <<cmd, run, result, cfgFile, cfgFile0, passes, cfg, parallel,
                 sliceSize, extraFileSliceSize, rf, loop, chunkArgs, chunkErr,
                 chunkCalls, restoreVars, coreVars>>

ReadLoop ==
  /\ pc = "readLoop"
  /\ \E l \in BOOLEAN : loop' = l
  /\ pc' = "callChunk"
  /\ UNCHANGED <<cmd, run, result, cfgFile, cfgFile0, passes, cfg, parallel,
                 sliceSize, extraFileSliceSize, rf, cb, calcCommp, saveManifest,
                 chunkArgs, chunkErr, chunkCalls, restoreVars, coreVars>>

\* graphsplit.Chunk(ctx, int64(sliceSize), ..., int(parallel), cb, rf, ...)
ChunkArgs(s, p, c, r) ==
  [sliceSize |-> s, parallel |-> ToInt(p), cb |-> c, rf |-> r]

\* The driver calls Chunk: once, or once more in the loop.
CallChunk ==
  /\ pc = "callChunk"
  /\ Len(passes) < MaxPasses
  /\ chunkArgs' = ChunkArgs(sliceSize, parallel, cb, rf)
  /\ chunkCalls' = Append(chunkCalls, chunkArgs')
  /\ passes' = Append(passes, chunkArgs'.sliceSize)
  /\ pc' = "inChunk"
  /\ next' = 1
  /\ building' = {}
  /\ open' = {}
  /\ sealed' = <<>>
  /\ emit' = "none"
  /\ cbLog' = <<>>
  /\ fatal' = FALSE
  /\ UNCHANGED <<cmd, run, result, cfgFile, cfgFile0, cfg, parallel, sliceSize,
                 extraFileSliceSize, rf, cb, calcCommp, saveManifest, loop,
                 chunkErr, restoreVars>>

\* Chunk returns, with an error or without.
ChunkReturn ==
  /\ pc = "inChunk"
  /\ \E e \in BOOLEAN : chunkErr' = e
  /\ pc' = "afterChunk"
  /\ UNCHANGED <<cmd, run, result, cfgFile, cfgFile0, passes, cfg, parallel,
                 sliceSize, extraFileSliceSize, rf, cb, calcCommp, saveManifest,
                 loop, chunkArgs, chunkCalls, restoreVars, coreVars>>

\* A loop that goes on whatever the pass returned.
LoopContinuesAlways(err) == TRUE

\* if err != nil { return fmt.Errorf("failed to chunk: %v", err) }
LoopContinues(err) == ~err

\* What the driver does with what Chunk returned.
AfterChunk ==
  /\ pc = "afterChunk"
  /\ IF ~loop THEN Return(IF chunkErr THEN "chunk error" ELSE "nil")
     ELSE IF LoopContinues(chunkErr) THEN pc' = "loopBump" /\ result' = result
     ELSE Return("failed to chunk")
  /\ UNCHANGED <<cmd, run, cfgFile, cfgFile0, passes, driverVars, restoreVars, coreVars>>

\* sliceSize++ ; cfg.SliceSize = sliceSize ; err = cfg.SaveConfig(cfgPath)
LoopBump ==
  /\ pc = "loopBump"
  /\ sliceSize' = ToInt(sliceSize + 1)
  /\ cfg' = [cfg EXCEPT !.SliceSize = sliceSize']
  /\ \E ok \in BOOLEAN :
       IF ok THEN /\ cfgFile' = cfg'
                  /\ pc' = "wait"
                  /\ result' = result
       ELSE /\ Return("failed to save config file")
            /\ cfgFile' = cfgFile
  /\ UNCHANGED <<cmd, run, cfgFile0, passes, parallel, extraFileSliceSize, rf,
                 cb, calcCommp, saveManifest, loop, chunkArgs, chunkErr,
                 chunkCalls, restoreVars, coreVars>>

\* <-time.After(60 * time.Second), and around the loop
LoopWait ==
  /\ pc = "wait"
  /\ pc' = "callChunk"
  /\ UNCHANGED <<cmd, run, result, cfgFile, cfgFile0, passes, driverVars,
                 restoreVars, coreVars>>

\* ---------------------------------------------------------- restore ----
StartRestore ==
  /\ pc = "main"
  /\ cmd' = "restore"
  /\ \E p \in RestoreParallelArgs : parallel' = p
  /\ \E d \in OutputDirs : outputDir' = d
  /\ pc' = "checkParallel"
  /\ UNCHANGED <<run, result, cfgFile, cfgFile0, passes, cfg, sliceSize,
                 extraFileSliceSize, rf, cb, calcCommp, saveManifest, loop,
                 chunkArgs, chunkErr, chunkCalls, coreCalls, coreReturns,
                 phaseFailed, coreVars>>

\* if parallel <= 0 { return fmt.Errorf(...) }
ParallelRejected(p) == p <= 0

CheckParallel ==
  /\ pc = "checkParallel"
  /\ IF ParallelRejected(parallel)
     THEN Return("Parallel has to be greater than 0")
     ELSE pc' = "callCarTo" /\ result' = result
  /\ UNCHANGED <<cmd, run, cfgFile, cfgFile0, passes, driverVars, restoreVars, coreVars>>

\* graphsplit.CarTo(carPath, outputDir, parallel)
CarToArgs(dir, p) == [op |-> "CarTo", dir |-> dir, parallel |-> p]

\* Merge called with the flag's default instead of the value read.
MergeArgsDefaultParallel(dir, p) == [op |-> "Merge", dir |-> dir, parallel |-> 4]

\* graphsplit.Merge(outputDir, parallel)
MergeArgs(dir, p) == [op |-> "Merge", dir |-> dir, parallel |-> p]

CallCarTo ==
  /\ pc = "callCarTo"
  /\ coreCalls' = Append(coreCalls, CarToArgs(outputDir, parallel))
  /\ pc' = "inCarTo"
  /\ UNCHANGED <<cmd, run, result, cfgFile, cfgFile0, passes, driverVars,
                 outputDir, coreReturns, phaseFailed, coreVars>>

\* CarTo returns; whatever failed in it is not looked at.
CarToReturn ==
  /\ pc = "inCarTo"
  /\ coreReturns' = Append(coreReturns, "CarTo")
  /\ \E failed \in BOOLEAN :
       phaseFailed' = IF failed THEN phaseFailed \cup {"CarTo"} ELSE phaseFailed
  /\ pc' = "callMerge"
  /\ UNCHANGED <<cmd, run, result, cfgFile, cfgFile0, passes, driverVars,
                 outputDir, coreCalls, coreVars>>

CallMerge ==
  /\ pc = "callMerge"
  /\ coreCalls' = Append(coreCalls, MergeArgs(outputDir, parallel))
  /\ pc' = "inMerge"
  /\ UNCHANGED <<cmd, run, result, cfgFile, cfgFile0, passes, driverVars,
                 outputDir, coreReturns, phaseFailed, coreVars>>

\* Merge returns; fmt.Println("completed!") ; return nil
MergeReturn ==
  /\ pc = "inMerge"
  /\ coreReturns' = Append(coreReturns, "Merge")
  /\ \E failed \in BOOLEAN :
       phaseFailed' = IF failed THEN phaseFailed \cup {"Merge"} ELSE phaseFailed
  /\ Return("nil")
  /\ UNCHANGED <<cmd, run, cfgFile, cfgFile0, passes, driverVars, outputDir,
                 coreCalls, coreVars>>

\* ------------------------------------------------- the process ends ----
\* Every variable but the config file and the history is the process's own.
Forget ==
  /\ cmd' = "none"
  /\ result' = "running"
  /\ cfg' = NoCfg
  /\ parallel' = 0
  /\ sliceSize' = 0
  /\ extraFileSliceSize' = 0
  /\ rf' = NoRealFile
  /\ cb' = NoCallback
  /\ calcCommp' = FALSE
  /\ saveManifest' = FALSE
  /\ loop' = FALSE
  /\ chunkArgs' = NoArgs
  /\ chunkErr' = FALSE
  /\ chunkCalls' = <<>>
  /\ outputDir' = ""
  /\ coreCalls' = <<>>
  /\ coreReturns' = <<>>
  /\ phaseFailed' = {}
  /\ next' = 1
  /\ building' = {}
  /\ open' = {}
  /\ sealed' = <<>>
  /\ emit' = "none"
  /\ cbLog' = <<>>
  /\ fatal' = FALSE

\* A chunk command that is running is stopped from outside: in loop mode
\* nothing else ends a run whose passes succeed.
Stop ==
  /\ cmd = "chunk"
  /\ pc \notin {"done", "stopped"}
  /\ run < MaxRuns
  /\ pc' = "stopped"
  /\ Forget
  /\ UNCHANGED <<run, cfgFile, cfgFile0, passes>>

\* The program is started again, on the config file the earlier runs left.
Rerun ==
  /\ pc \in {"done", "stopped"}
  /\ run < MaxRuns
  /\ run' = run + 1
  /\ cfgFile0' = cfgFile
  /\ pc' = "main"
  /\ Forget
  /\ UNCHANGED <<cfgFile, passes>>

Next ==
  \/ StartChunk \/ CheckCarDir \/ CheckCfgPath \/ LoadConfig \/ BumpSliceSize
  \/ SaveConfig \/ ParseExtra \/ CheckLimit \/ NewRealFile \/ ChooseCallback
  \/ ReadLoop \/ CallChunk \/ ChunkReturn \/ AfterChunk \/ LoopBump \/ LoopWait
  \/ StartRestore \/ CheckParallel \/ CallCarTo \/ CarToReturn \/ CallMerge
  \/ MergeReturn \/ Stop \/ Rerun

Spec == Init /\ [][Next]_vars

\* -------------------------------------------- inside one Chunk call ----
\* The chunk engine as the design describes it: the files of the walk are
\* built by up to `parallelism` workers; built files go to the open slice;
\* a full slice (or the last one) is sealed, its archive is written and the
\* callback is invoked, one slice at a time.
Files == 1 .. NumFiles

\* A free worker takes the next file of the walk.
PassDispatch ==
  /\ pc = "inChunk"
  /\ ~fatal
  /\ next <= NumFiles
  /\ Cardinality(building) < chunkArgs.parallel
  /\ building' = building \cup {next}
  /\ next' = next + 1
  /\ UNCHANGED <<pc, cmd, run, result, cfgFile, cfgFile0, passes, driverVars,
                 restoreVars, open, sealed, emit, cbLog, fatal>>

\* A worker has built its file's DAG: its blocks go to the open slice.
PassBuilt ==
  /\ pc = "inChunk"
  /\ ~fatal
  /\ Cardinality(open) < SliceCap
  /\ \E f \in building :
       /\ building' = building \ {f}
       /\ open' = open \cup {f}
  /\ UNCHANGED <<pc, cmd, run, result, cfgFile, cfgFile0, passes, driverVars,
                 restoreVars, next, sealed, emit, cbLog, fatal>>

\* The open slice is full, or the input is exhausted: it is sealed.
PassSeal ==
  /\ pc = "inChunk"
  /\ ~fatal
  /\ emit = "none"
  /\ open # {}
  /\ Cardinality(open) = SliceCap \/ (next > NumFiles /\ building = {})
  /\ sealed' = Append(sealed, [files |-> open, archive |-> "pending"])
  /\ open' = {}
  /\ emit' = "sealed"
  /\ UNCHANGED <<pc, cmd, run, result, cfgFile, cfgFile0, passes, driverVars,
                 restoreVars, next, building, cbLog, fatal>>

\* An engine that skips the callback of a slice whose archive failed.
ArchiveOutcomeDropsFailed(ok) == IF ok THEN "written" ELSE "none"

\* What follows the write of a sealed slice's archive: the callback, too
\* when the write failed.
ArchiveOutcome(ok) == IF ok THEN "written" ELSE "failed"

PassWriteArchive ==
  /\ pc = "inChunk"
  /\ emit = "sealed"
  /\ \E ok \in BOOLEAN :
       /\ emit' = ArchiveOutcome(ok)
       /\ sealed' = [sealed EXCEPT ![Len(sealed)].archive =
                       IF ok THEN "written" ELSE "failed"]
  /\ UNCHANGED <<pc, cmd, run, result, cfgFile, cfgFile0, passes, driverVars,
                 restoreVars, next, building, open, cbLog, fatal>>

\* The callback is invoked for the slice just sealed; a fatal error it
\* returns ends the pass.
PassCallback ==
  /\ pc = "inChunk"
  /\ emit \in {"written", "failed"}
  /\ cbLog' = Append(cbLog, [slice |-> Len(sealed), cb |-> chunkArgs.cb,
                             err |-> (emit = "failed")])
  /\ \E ret \in BOOLEAN :
       /\ chunkArgs.cb = "ErrCallback" => ret = (emit = "failed")
       /\ fatal' = ret
  /\ emit' = "none"
  /\ UNCHANGED <<pc, cmd, run, result, cfgFile, cfgFile0, passes, driverVars,
                 restoreVars, next, building, open, sealed>>

\* Chunk returns: at once for a parallelism that is not positive, with the
\* callback's fatal error, or when every file is in a sealed slice.
PassReturn ==
  /\ pc = "inChunk"
  /\ emit = "none"
  /\ \/ chunkArgs.parallel <= 0
     \/ fatal
     \/ next > NumFiles /\ building = {} /\ open = {}
  /\ chunkErr' = (fatal \/ chunkArgs.parallel <= 0)
  /\ pc' = "afterChunk"
  /\ UNCHANGED <<cmd, run, result, cfgFile, cfgFile0, passes, cfg, parallel,
                 sliceSize, extraFileSliceSize, rf, cb, calcCommp, saveManifest,
                 loop, chunkArgs, chunkCalls, restoreVars, coreVars>>

\* The chunk command on a config file it accepts, with the engine's steps
\* in place of the bare return of Chunk.
PassConfigFiles ==
  { c \in ConfigFiles : /\ c.SliceSize \in {0, SliceLimit - 2}
                        /\ c.ExtraFileSizeInOnePiece \in {EmptyText, SizeText(1)} }

InitPass == Init /\ cfgFile \in PassConfigFiles

NextPass ==
  \/ StartChunk \/ CheckCarDir \/ CheckCfgPath \/ LoadConfig \/ BumpSliceSize
  \/ SaveConfig \/ ParseExtra \/ CheckLimit \/ NewRealFile \/ ChooseCallback
  \/ ReadLoop \/ CallChunk \/ AfterChunk \/ LoopBump \/ LoopWait
  \/ PassDispatch \/ PassBuilt \/ PassSeal \/ PassWriteArchive \/ PassCallback
  \/ PassReturn

SpecPass == InitPass /\ [][NextPass]_vars

\* ------------------------------------------------------- properties ----

\* C1: every invocation of the chunk operation, the single one and each one
\* of the loop, is made with sliceSize + extraFileSliceSize <= 32 GiB, for
\* the sliceSize passed to that invocation.
ChunkWithinLimit ==
  pc = "inChunk" => chunkArgs.sliceSize + extraFileSliceSize <= SliceLimit

\* The errors with which the chunk command rejects a configuration.
ConfigRejections ==
  {"extra file size in one piece is required", "failed to parse real file size",
   "exceeds 32 GiB"}

\* C2: a chunk command that rejects its configuration has by then not
\* invoked the chunk operation, not built the extra-file source and not
\* written the config file.
RejectionBeforeAnyIO ==
  (cmd = "chunk" /\ pc = "done" /\ result \in ConfigRejections)
    => (chunkCalls = <<>> /\ ~rf.made /\ cfgFile = cfgFile0)

\* C3 as stated: in loop mode a pass that ends with an error does not end
\* the loop; the command does not return because a pass failed.
LoopSurvivesFailedPass ==
  (cmd = "chunk" /\ loop /\ pc = "done") => ~chunkErr

\* The steps of loop mode after a pass.  (A step to "stopped" is the process
\* being ended from outside.)
LoopStep ==
  /\ (pc = "afterChunk" /\ loop /\ pc' \notin {"afterChunk", "stopped"})
       => IF chunkErr THEN pc' = "done" /\ result' = "failed to chunk"
          ELSE pc' = "loopBump" /\ result' = "running"
  /\ (pc = "loopBump" /\ pc' \notin {"loopBump", "stopped", "done"})
       => /\ pc' = "wait"
          /\ sliceSize' = ToInt(sliceSize + 1)
          /\ cfgFile'.SliceSize = sliceSize'
  /\ (pc = "loopBump" /\ pc' = "done") => result' = "failed to save config file"
  /\ (pc = "wait" /\ pc' \notin {"wait", "stopped"}) => pc' = "callChunk"
  /\ (pc = "callChunk" /\ loop /\ pc' \notin {"callChunk", "stopped"})
       => /\ pc' = "inChunk"
          /\ chunkArgs'.sliceSize = sliceSize
          /\ Len(chunkCalls') = Len(chunkCalls) + 1

\* C3 as amended: in loop mode a pass that returns without error is followed
\* by the save of the slice size raised by one, the wait, and another pass with
\* that slice size; a pass that returns an error ends the command with the
\* error "failed to chunk".
LoopRepeatsOnlyAfterSuccess == [][LoopStep]_vars

\* A second pass of a loop, made after a first that succeeded, has failed
\* and ended the command.
LoopEndedByFailedSecondPass ==
  /\ cmd = "chunk" /\ loop /\ pc = "done"
  /\ result = "failed to chunk"
  /\ Len(chunkCalls) >= 2

\* C4: a restore run in which the restore phase or the merge phase failed
\* does not end with success (a nil result).
RestoreReportsFailure ==
  (cmd = "restore" /\ pc = "done" /\ phaseFailed # {}) => result # "nil"

\* C5: the chunk, restore and merge operations are only ever called with a
\* positive parallelism.
PositiveParallelism ==
  /\ \A i \in DOMAIN chunkCalls : chunkCalls[i].parallel > 0
  /\ \A i \in DOMAIN coreCalls : coreCalls[i].parallel > 0

\* The callback invocations made for slice i.
CallsFor(i) == {k \in DOMAIN cbLog : cbLog[k].slice = i}

\* C6: in a chunk pass, with at most `parallelism` workers building, the
\* callback the driver selected has been called exactly once for every slice
\* sealed and finalized (with the error set iff its archive failed), at most
\* once for the slice being finalized, exactly once for every sealed slice
\* when the pass returns, and for no slice that was not sealed.
CallbackOncePerSealedSlice ==
  /\ Cardinality(building) <= chunkArgs.parallel \/ building = {}
  /\ \A k \in DOMAIN cbLog :
       /\ cbLog[k].slice \in DOMAIN sealed
       /\ cbLog[k].cb = cb
       /\ cbLog[k].err = (sealed[cbLog[k].slice].archive = "failed")
  /\ \A i \in DOMAIN sealed :
       /\ Cardinality(CallsFor(i)) <= 1
       /\ (i < Len(sealed) \/ emit = "none" \/ pc # "inChunk")
            => Cardinality(CallsFor(i)) = 1

\* A pass with two workers has returned after two slices, one of them with
\* a failed archive.
PassOfTwoSlicesReturned ==
  /\ pc = "afterChunk"
  /\ chunkArgs.parallel = 2
  /\ Len(sealed) >= 2
  /\ \E k \in DOMAIN cbLog : cbLog[k].err

\* C7: every Chunk call of a run gets the commitment callback when
\* calc-commp is set, the manifest callback when only save-manifest is set,
\* and the error callback when neither is.
CallbackMatchesFlags ==
  \A i \in DOMAIN chunkCalls :
    /\ calcCommp => chunkCalls[i].cb = "CommPCallback"
    /\ (~calcCommp /\ saveManifest) => chunkCalls[i].cb = "CSVCallback"
    /\ (~calcCommp /\ ~saveManifest) => chunkCalls[i].cb = "ErrCallback"

\* The second pass of a loop with both flags set.
SecondPassBothFlags ==
  /\ pc = "inChunk" /\ loop /\ Len(chunkCalls) >= 2
  /\ calcCommp /\ saveManifest

\* C8: the restore command calls CarTo once, then, CarTo having returned,
\* Merge once, both with the command's output directory and parallelism, and
\* calls neither when the parallelism is not positive.
RestoreThenMerge ==
  cmd = "restore" =>
    /\ Len(coreCalls) <= 2
    /\ Len(coreCalls) >= 1 =>
         coreCalls[1] = [op |-> "CarTo", dir |-> outputDir, parallel |-> parallel]
    /\ Len(coreCalls) = 2 =>
         /\ coreCalls[2] = [op |-> "Merge", dir |-> outputDir, parallel |-> parallel]
         /\ Len(coreReturns) >= 1 /\ coreReturns[1] = "CarTo"
    /\ parallel <= 0 => coreCalls = <<>>
    /\ (pc = "done" /\ result = "nil") => (Len(coreCalls) = 2 /\ Len(coreReturns) = 2)
    /\ (pc = "done" /\ result # "nil") => parallel <= 0

\* A restore has completed with a parallelism other than the default.
RestoreCompleted ==
  /\ cmd = "restore" /\ pc = "done" /\ result = "nil"
  /\ parallel = 1 /\ Len(coreCalls) = 2

\* C9: when a pass starts the config file holds the slice size passed to
\* it, that size is greater than the size of every earlier pass of any run,
\* and one more than that of the run's previous pass.
SliceSizeFreshEachPass ==
  pc = "inChunk" =>
    /\ cfgFile.SliceSize = chunkArgs.sliceSize
    /\ \A i \in 1 .. Len(passes) - 1 : passes[i] < passes[Len(passes)]
    /\ Len(chunkCalls) >= 2 =>
         chunkCalls[Len(chunkCalls)].sliceSize
           = chunkCalls[Len(chunkCalls) - 1].sliceSize + 1

\* C10: the extra-file source handed to a Chunk call was constructed with
\* the slice size passed to that call.
RealFileBuiltForPassSize ==
  \A i \in DOMAIN chunkCalls : chunkCalls[i].rf.sliceSize = chunkCalls[i].sliceSize

====
